---- MODULE Spec2Model ----
(***************************************************************************)
(* Model of slidershow-builder: the timeline directive compiler            *)
(* (parse_commands, tim, output_tokens in src/build_html.py), the reading  *)
(* of a sheet cell (cell_value) and the media conversion cache (Convert in *)
(* src/slidershow_builder/_lib/convert.py).                                *)
(*                                                                         *)
(* Text is modelled as a sequence of one-character strings, so that the    *)
(* regular expressions, split() and strip() of the source are computed     *)
(* character by character.  The arrow character of the directive language  *)
(* is written ">" here.  The only whitespace character of the alphabet is  *)
(* the blank.                                                              *)
(***************************************************************************)
EXTENDS Integers, Sequences, FiniteSets, TLC

\* ------------------------------------------------------------------------
\* Bounds of the model
\* ------------------------------------------------------------------------
MaxCells == 2      \* command cells in a row
MaxCalls == 2      \* compilations of the same row object
NCallers == 2      \* concurrent users of one cache directory
MaxResolves == 2   \* Convert.run calls started, over all callers
MaxMeta == 2       \* metadata generations of the edited source file
MaxLen == 5        \* characters of a text cell
MaxNum == 1025     \* digits of a numeric cell, read as a natural number
MaxFrac == 3       \* fractional digits of a float cell

\* ------------------------------------------------------------------------
\* Generic text helpers
\* ------------------------------------------------------------------------
Digit == {"0", "1", "2", "3", "4", "5", "6", "7", "8", "9"}
ARROW == ">"
SPACE == " "

Range(s) == {s[k] : k \in 1..Len(s)}

Last(s) == s[Len(s)]

RECURSIVE Flatten(_)
Flatten(ss) == IF ss = <<>> THEN <<>> ELSE Head(ss) \o Flatten(Tail(ss))

\* the positions m, m+1, ..., n as a sequence (empty when n < m)
Asc(m, n) == [k \in 1..(n - m + 1) |-> m + k - 1]

At(s, p) == IF p >= 1 /\ p <= Len(s) THEN s[p] ELSE ""

StartsWith(s, pre) == Len(s) >= Len(pre) /\ SubSeq(s, 1, Len(pre)) = pre

\* str.split(sep) for a one-character separator
RECURSIVE SplitFrom(_, _, _, _)
SplitFrom(s, sep, p, cur) ==
    IF p > Len(s) THEN <<cur>>
    ELSE IF s[p] = sep THEN <<cur>> \o SplitFrom(s, sep, p + 1, <<>>)
    ELSE SplitFrom(s, sep, p + 1, Append(cur, s[p]))

Split(s, sep) == SplitFrom(s, sep, 1, <<>>)

\* str.strip()
RECURSIVE LStrip(_)
LStrip(s) == IF s /= <<>> /\ Head(s) = SPACE THEN LStrip(Tail(s)) ELSE s

RECURSIVE RStrip(_)
RStrip(s) == IF s /= <<>> /\ Last(s) = SPACE THEN RStrip(SubSeq(s, 1, Len(s) - 1)) ELSE s

Strip(s) == RStrip(LStrip(s))

\* ------------------------------------------------------------------------
\* Numbers and their decimal text
\* ------------------------------------------------------------------------
DigitVal(c) ==
    CASE c = "0" -> 0 [] c = "1" -> 1 [] c = "2" -> 2 [] c = "3" -> 3 [] c = "4" -> 4
      [] c = "5" -> 5 [] c = "6" -> 6 [] c = "7" -> 7 [] c = "8" -> 8 [] c = "9" -> 9

DigitChar(n) == <<"0", "1", "2", "3", "4", "5", "6", "7", "8", "9">>[n + 1]

RECURSIVE Pow10(_)
Pow10(d) == IF d = 0 THEN 1 ELSE 10 * Pow10(d - 1)

RECURSIVE IntOf(_)
IntOf(ds) == IF ds = <<>> THEN 0 ELSE 10 * IntOf(SubSeq(ds, 1, Len(ds) - 1)) + DigitVal(Last(ds))

RECURSIVE IntText(_)
IntText(n) == IF n < 10 THEN <<DigitChar(n)>> ELSE Append(IntText(n \div 10), DigitChar(n % 10))

\* n as exactly d digits, zero-padded on the left
RECURSIVE PadText(_, _)
PadText(n, d) == IF d = 0 THEN <<>> ELSE Append(PadText(n \div 10, d - 1), DigitChar(n % 10))

\* Values a moment can hold: None, a str, or a float.  A float is the exact
\* decimal n / 10^d with no trailing zero digit in the fraction; the rows of
\* the model stay in the range where binary floating point prints the same
\* decimal, without an exponent.
None == [k |-> "none", s |-> <<>>, n |-> 0, d |-> 0]
Str(s) == [k |-> "str", s |-> s, n |-> 0, d |-> 0]
Bad == [k |-> "err", s |-> <<>>, n |-> 0, d |-> 0]

RECURSIVE Float(_, _)
Float(n, d) ==
    IF d > 0 /\ n % 10 = 0 THEN Float(n \div 10, d - 1)
    ELSE [k |-> "float", s |-> <<>>, n |-> n, d |-> d]

\* float(text): digits with at most one dot and at least one digit
ParseFloat(t) ==
    LET parts == Split(t, ".")
        ds == Flatten(parts)
    IN IF Len(parts) <= 2 /\ ds /= <<>> /\ Range(ds) \subseteq Digit
       THEN Float(IntOf(ds), IF Len(parts) = 2 THEN Len(parts[2]) ELSE 0)
       ELSE Bad

\* variant: the minutes are not scaled
MinSecPlain(m, s) ==
    LET d == IF m.d > s.d THEN m.d ELSE s.d
    IN Float(m.n * Pow10(d - m.d) + s.n * Pow10(d - s.d), d)

\* minutes * 60 + seconds
MinSec(m, s) ==
    LET d == IF m.d > s.d THEN m.d ELSE s.d
    IN Float(m.n * Pow10(d - m.d) * 60 + s.n * Pow10(d - s.d), d)

\* str(value), as an f-string renders it
Text(v) ==
    CASE v.k = "str" -> v.s
      [] v.k = "float" ->
            IntText(v.n \div Pow10(v.d)) \o <<".">>
              \o (IF v.d = 0 THEN <<"0">> ELSE PadText(v.n % Pow10(v.d), v.d))
      [] OTHER -> <<"N", "o", "n", "e">>

\* Python truth value of a moment
Truthy(v) ==
    CASE v.k = "str" -> v.s /= <<>>
      [] v.k = "float" -> v.n /= 0
      [] OTHER -> FALSE

tim(v) ==
    IF ":" \notin Range(v) THEN Str(v)
    ELSE LET parts == Split(v, ":")
         IN IF Len(parts) /= 2 THEN Bad
            ELSE LET m == ParseFloat(parts[1])
                     s == ParseFloat(parts[2])
                 IN IF m.k = "err" \/ s.k = "err" THEN Bad ELSE MinSec(m, s)

\* ------------------------------------------------------------------------
\* cell_value
\* ------------------------------------------------------------------------
\* an int cell value
IntCell(n) == [k |-> "int", s |-> <<>>, n |-> n, d |-> 0]

\* str(val) of an int or of a float
NumberText(val) == IF val.k = "int" THEN IntText(val.n) ELSE Text(val)

\* .replace(".0", ""): every occurrence, from the left
RECURSIVE RemoveDotZero(_)
RemoveDotZero(s) ==
    IF Len(s) < 2 THEN s
    ELSE IF s[1] = "." /\ s[2] = "0" THEN RemoveDotZero(SubSeq(s, 3, Len(s)))
    ELSE <<s[1]>> \o RemoveDotZero(Tail(s))

cell_value(val) ==
    CASE val.k = "none" -> None
      [] val.k \in {"int", "float"} -> Str(RemoveDotZero(NumberText(val)))
      [] OTHER -> Str(val.s)

\* ------------------------------------------------------------------------
\* The regular expressions of parse_commands.  Each ...Ends operator lists
\* the positions just after a match starting at p, in the order in which a
\* backtracking matcher tries them (greedy \d*, greedy optional groups,
\* lazy final \d+?).
\* ------------------------------------------------------------------------
RECURSIVE DigitRun(_, _)
DigitRun(s, p) == IF At(s, p) \in Digit THEN 1 + DigitRun(s, p + 1) ELSE 0

\* \.?\d+?
FracEnds(s, q) ==
    (IF At(s, q) = "." THEN Asc(q + 2, q + 1 + DigitRun(s, q + 1)) ELSE <<>>)
      \o Asc(q + 1, q + DigitRun(s, q))

\* (?::\d+)?\.?\d+?
ColonEnds(s, q) ==
    LET run == IF At(s, q) = ":" THEN DigitRun(s, q + 1) ELSE 0
    IN Flatten([k \in 1..run |-> FracEnds(s, q + 1 + (run - k + 1))]) \o FracEnds(s, q)

\* TNUM = (\d*(?::\d+)?\.?\d+?)
TNUMEnds(s, p) ==
    LET run == DigitRun(s, p)
    IN Flatten([k \in 1..(run + 1) |-> ColonEnds(s, p + run - k + 1)])

\* NUM = (\d*\.?\d+?)
NUMEnds(s, p) ==
    LET run == DigitRun(s, p)
    IN Flatten([k \in 1..(run + 1) |-> FracEnds(s, p + run - k + 1)])

NoMatch == [ok |-> FALSE, g1 |-> <<>>, g2 |-> <<>>]
Groups(a, b) == [ok |-> TRUE, g1 |-> a, g2 |-> b]

\* match(rf"{TNUM}$", command)
MatchNumber(c) ==
    IF (Len(c) + 1) \in Range(TNUMEnds(c, 1)) THEN Groups(c, <<>>) ELSE NoMatch

\* match(rf"→\s?{TNUM}$", command)
MatchArrow(c) ==
    LET p == IF At(c, 2) = SPACE THEN 3 ELSE 2
    IN IF At(c, 1) = ARROW /\ (Len(c) + 1) \in Range(TNUMEnds(c, p))
       THEN Groups(SubSeq(c, p, Len(c)), <<>>)
       ELSE NoMatch

\* match(rf"{TNUM}\s?→\s?{TNUM}", command): no anchor at the end
MatchCombined(c) ==
    LET ends == TNUMEnds(c, 1)
        arrow(e) == IF At(c, e) = SPACE THEN e + 1 ELSE e
        second(e) == IF At(c, arrow(e) + 1) = SPACE THEN arrow(e) + 2 ELSE arrow(e) + 1
        good(j) == At(c, arrow(ends[j])) = ARROW /\ TNUMEnds(c, second(ends[j])) /= <<>>
        hits == {j \in 1..Len(ends) : good(j)}
    IN IF hits = {} THEN NoMatch
       ELSE LET j == CHOOSE x \in hits : \A y \in hits : x <= y
                b == second(ends[j])
            IN Groups(SubSeq(c, 1, ends[j] - 1), SubSeq(c, b, TNUMEnds(c, b)[1] - 1))

\* match(rf"F{NUM}(M|U)?", command) and match(rf"R{NUM}(M|U)?", command)
MatchShort(c, letter) ==
    LET ends == NUMEnds(c, 2)
    IN IF At(c, 1) = letter /\ ends /= <<>>
       THEN Groups(SubSeq(c, 2, ends[1] - 1),
                   IF At(c, ends[1]) \in {"M", "U"} THEN <<At(c, ends[1])>> ELSE <<>>)
       ELSE NoMatch

\* match(rf"rate\s?{NUM}", command)
MatchRate(c) ==
    LET p == IF At(c, 5) = SPACE THEN 6 ELSE 5
        ends == NUMEnds(c, p)
    IN IF StartsWith(c, <<"r", "a", "t", "e">>) /\ ends /= <<>>
       THEN Groups(SubSeq(c, p, ends[1] - 1), <<>>)
       ELSE NoMatch

\* ------------------------------------------------------------------------
\* Tokens and events
\* ------------------------------------------------------------------------
MUTE == <<"m", "u", "t", "e">>
UNMUTE == <<"u", "n", "m", "u", "t", "e">>
PAUSE == <<"p", "a", "u", "s", "e">>
GOTO == <<"g", "o", "t", "o", ":">>
RATE == <<"r", "a", "t", "e", ":">>

clist ==
    [c \in {MUTE, UNMUTE, <<"M">>, <<"U">>, PAUSE} |->
        CASE c = <<"M">> -> MUTE [] c = <<"U">> -> UNMUTE [] OTHER -> c]

\* An event stands for the text  [<moment>, "<token>","<token>"...]
Event(m, toks) == [moment |-> m, tokens |-> toks]

output_tokens(m, toks) == Event(Text(m), toks)

\* ------------------------------------------------------------------------
\* Rows handed to parse_commands
\* ------------------------------------------------------------------------
\* A spreadsheet cell: absent (None) or a str
Absent == [some |-> FALSE, v |-> <<>>]
Cell(t) == [some |-> TRUE, v |-> t]

Starts ==
    { Absent,
      Cell(<<"0">>),
      Cell(<<"5">>),
      Cell(<<"1", ":", "3", "0">>) }

Cells ==
    { Absent,
      Cell(<<>>),
      Cell(<<" ">>),
      Cell(<<"0">>),
      Cell(<<"5">>),
      Cell(<<"0", ":", "0", "0">>),
      Cell(<<"1", ":", "3", "0">>),
      Cell(<<">", "7">>),
      Cell(<<"4", "8", ">", "6", "0", ".", "5">>),
      Cell(<<"4", "8", ">", "6", "0", ".", "5", "5">>),
      Cell(<<"1", ":", "3", "0", " ", ">", " ", "0", ":", "0", "5">>),
      Cell(<<"M">>),
      Cell(<<"M", ",">>),
      Cell(<<"R", "4", "M">>),
      Cell(<<"R", "1", ".", "2", "5">>),
      Cell(<<"F", "2">>),
      Cell(<<"r", "a", "t", "e", " ", "2">>),
      Cell(<<"p", "o", "i", "n", "t", ":", "[", "0", ",", "2", "]">>),
      Cell(<<"P">>),
      Cell(<<"P", "x">>),
      Cell(<<"T", "O", "D", "O">>),
      Cell(<<"x">>),
      Cell(<<"1", "5", ",", "r", "a", "t", "e", " ", "2", "|", "3", "0">>) }

Rows == UNION {[1..n -> Cells] : n \in 0..MaxCells}

\* ------------------------------------------------------------------------
\* parse_commands: the directive splitter
\* ------------------------------------------------------------------------
NonEmpty(t) == t /= <<>>

\* variant: only the arrow directive is put in front, without the "0"
StartDirectivesNoZero(st) ==
    IF st.some /\ st.v /= <<>> /\ st.v /= <<"0">>
    THEN <<Cell(<<ARROW>> \o Text(tim(st.v)))>>
    ELSE <<>>

\* if start and start != "0": the two directives put in front of the list
StartDirectives(st) ==
    IF st.some /\ st.v /= <<>> /\ st.v /= <<"0">>
    THEN <<Cell(<<"0">>), Cell(<<ARROW>> \o Text(tim(st.v)))>>
    ELSE <<>>

\* [part for cmd in commands for part in (cmd or "").split("|") if part]
SplitPipes(cs) ==
    Flatten([k \in 1..Len(cs) |->
        SelectSeq(Split(IF cs[k].some THEN cs[k].v ELSE <<>>, "|"), NonEmpty)])

\* [r.strip() for subcommand in commands if subcommand is not None
\*            for r in ([subcommand] if "[" in subcommand else subcommand.split(","))]
SplitCommas(parts) ==
    Flatten([k \in 1..Len(parts) |->
        LET rs == IF "[" \in Range(parts[k]) THEN <<parts[k]>> ELSE Split(parts[k], ",")
        IN [j \in 1..Len(rs) |-> Strip(rs[j])]])

Directives(cs) == SplitCommas(SplitPipes(cs))

\* ------------------------------------------------------------------------
\* parse_commands: the if/elif chain that classifies a directive
\* ------------------------------------------------------------------------
IsPoint(c) == StartsWith(c, <<"p", "o", "i", "n", "t">>)

\* match(rf"P", command)
IsPlay(c) == At(c, 1) = "P"

IsTodo(c) == StartsWith(c, <<"T", "O", "D", "O">>)

Rule(c) ==
    IF MatchNumber(c).ok THEN 1
    ELSE IF MatchArrow(c).ok THEN 2
    ELSE IF MatchCombined(c).ok THEN 3
    ELSE IF MatchShort(c, "F").ok THEN 4
    ELSE IF MatchShort(c, "R").ok THEN 5
    ELSE IF MatchRate(c).ok THEN 6
    ELSE IF c \in DOMAIN clist THEN 7
    ELSE IF IsPoint(c) THEN 8
    ELSE IF IsPlay(c) THEN 9
    ELSE IF IsTodo(c) THEN 10
    ELSE 11

\* variant: tokens gathered without an open moment are not flushed
AccumulatingMomentOnly(m, toks) == Truthy(m)

\* if moment or tokens:
Accumulating(m, toks) == Truthy(m) \/ toks /= <<>>

\* variant: the check for an empty accumulator is missing
NoActionNever(toks) == FALSE

\* if not tokens: raise ValueError("No action at ...")
NoAction(toks) == toks = <<>>

\* if not moment: moment = "0"
FlushMoment(m) == IF Truthy(m) THEN m ELSE Str(<<"0">>)

\* if moment: raise ValueError("Moment already defined ...")
MomentDefined(m) == Truthy(m)

\* variant: the event is placed at the target time
CombinedEventAtTarget(g1, g2) == Event(Text(tim(g2)), <<GOTO \o Text(tim(g2))>>)

\* yield f'[{tim(m[1])}, "goto:{tim(m[2])}"]'
CombinedEvent(g1, g2) == Event(Text(tim(g1)), <<GOTO \o Text(tim(g2))>>)

\* tokens.append(f"rate:1.{m[1]}") / tokens.append(f"rate:{m[1]}"), then the suffix
ShortTokens(prefix, m) ==
    <<prefix \o m.g1>> \o (IF m.g2 /= <<>> THEN <<clist[m.g2]>> ELSE <<>>)

\* ------------------------------------------------------------------------
\* State
\* ------------------------------------------------------------------------
VARIABLES
    start,      \* the row's start cell
    cells,      \* the caller's commands list object
    calls,      \* number of times the caller has compiled the row
    prev,       \* what the previous compilation of the row produced
    pc,         \* "idle": outside parse_commands, "loop": in its for loop
    commands,   \* the local list of directives after splitting
    i,          \* index of the next directive (1-based)
    moment,     \* the open moment
    tokens,     \* the accumulator of the open moment
    out,        \* the events yielded so far by the current (or last) call
    origin,     \* for each event of out: the yield it came from, and at which directive
    err,        \* "" or the ValueError that ended the call
    enable,             \* Convert.enable
    autogenerate,       \* Convert.autogenerate
    check_mp4_for_hevc, \* Convert.check_mp4_for_hevc
    present,    \* the source files that exist
    meta,       \* the metadata generation of each source file
    cache,      \* the files that exist in cache_dir
    cpc,        \* per caller: "idle", "looked", "converted" or "aborted"
    path,       \* per caller: the argument of the running Convert.run
    cached,     \* per caller: the local cached of get_converted
    exists,     \* per caller: the local exists of get_converted
    ran,        \* per caller: whether the running call invoked the transcoder
    log,        \* per caller: the calls that returned, with what they returned
    resolves,   \* number of Convert.run calls started
    probes,     \* number of codec probes made
    transcodes, \* number of transcoder invocations made
    val,        \* the value of the start cell in the sheet
    txt,        \* what cell_value made of it
    sec,        \* tim(start), None when tim was not applied
    rpc         \* "cell": not read, "start": read, "done": start handled

pvars == <<start, cells, calls, prev, pc, commands, i, moment, tokens, out, origin, err>>
cvars == <<enable, autogenerate, check_mp4_for_hevc, present, meta, cache, cpc, path,
           cached, exists, ran, log, resolves, probes, transcodes>>
rvars == <<val, txt, sec, rpc>>
vars == <<pvars, cvars, rvars>>

\* ------------------------------------------------------------------------
\* Convert: paths, files and the collaborators of convert_tools
\* ------------------------------------------------------------------------
Callers == 1..NCallers

SrcPath(name, suffix) == [dir |-> "src", name |-> name, key |-> 0, suffix |-> suffix]
NoPath == [dir |-> "none", name |-> "", key |-> 0, suffix |-> ""]

Paths ==
    { SrcPath("a.HEIC", ".HEIC"),
      SrcPath("b.hevc", ".hevc"),
      SrcPath("c.mp4", ".mp4"),
      SrcPath("d.mp4", ".mp4"),
      SrcPath("e.jpg", ".jpg") }

\* the one source file that is modified while the tool runs
Edited == SrcPath("a.HEIC", ".HEIC")

\* path.suffix.lower()
Lower(suffix) == IF suffix = ".HEIC" THEN ".heic" ELSE suffix

\* is_hevc(path): the codec probe; c.mp4 is the HEVC-coded file
is_hevc(p) == p.name = "c.mp4"

\* file_meta_key(p): a key derived from the file's metadata
file_meta_key(p) == meta[p]

\* what one run of heic_to_jpg / ffmpeg_video can end in: the target file
\* written, no file written, or an exception
TranscodeOutcomes == {"ok", "nofile", "raise"}

\* self.cache_dir / (p.name + f".{file_meta_key(p)}{suffix}")
get_cached_path(p, suffix) ==
    [dir |-> "cache", name |-> p.name, key |-> file_meta_key(p), suffix |-> suffix]

\* the match statement of run: the target suffix, "" when nothing is converted
Target(p) ==
    CASE Lower(p.suffix) = ".heic" -> ".jpg"
      [] Lower(p.suffix) = ".hevc" -> ".mp4"
      [] Lower(p.suffix) = ".mp4" /\ check_mp4_for_hevc /\ is_hevc(p) -> ".mp4"
      [] OTHER -> ""

\* variant: the codec probe does not depend on enable
ProbesWhenDisabled(p) == p \in present /\ Lower(p.suffix) = ".mp4" /\ check_mp4_for_hevc

\* whether run evaluates is_hevc(path)
Probes(p) == enable /\ p \in present /\ Lower(p.suffix) = ".mp4" /\ check_mp4_for_hevc

\* variant: the existence of the entry is not consulted
NeedsMethodAlways(auto, ex) == auto

\* if self.autogenerate and not exists: method(path, cached)
NeedsMethod(auto, ex) == auto /\ ~ex

\* variant: get_converted always returns the cache path
KeepsOriginalNever(auto, ex) == FALSE

\* if not self.autogenerate and not exists: return path
KeepsOriginal(auto, ex) == ~auto /\ ~ex

\* a row to compile; Convert with its dataclass defaults and no call made
Init ==
    /\ start \in Starts
    /\ cells \in Rows
    /\ calls = 0
    /\ prev = [out |-> <<>>, err |-> ""]
    /\ pc = "idle"
    /\ commands = <<>>
    /\ i = 1
    /\ moment = None
    /\ tokens = <<>>
    /\ out = <<>>
    /\ origin = <<>>
    /\ err = ""
    /\ enable = FALSE
    /\ autogenerate = TRUE
    /\ check_mp4_for_hevc = TRUE
    /\ present = Paths
    /\ meta = [p \in Paths |-> 1]
    /\ cache = {}
    /\ cpc = [t \in Callers |-> "idle"]
    /\ path = [t \in Callers |-> NoPath]
    /\ cached = [t \in Callers |-> NoPath]
    /\ exists = [t \in Callers |-> FALSE]
    /\ ran = [t \in Callers |-> FALSE]
    /\ log = [t \in Callers |-> <<>>]
    /\ resolves = 0
    /\ probes = 0
    /\ transcodes = 0
    /\ val = None
    /\ txt = None
    /\ sec = None
    /\ rpc = "cell"

\* a Convert of any configuration over the files; no row is compiled
InitConvert ==
    /\ start = Absent
    /\ cells = <<>>
    /\ calls = 0
    /\ prev = [out |-> <<>>, err |-> ""]
    /\ pc = "idle"
    /\ commands = <<>>
    /\ i = 1
    /\ moment = None
    /\ tokens = <<>>
    /\ out = <<>>
    /\ origin = <<>>
    /\ err = ""
    /\ enable \in BOOLEAN
    /\ autogenerate \in BOOLEAN
    /\ check_mp4_for_hevc \in BOOLEAN
    /\ present \in {Paths, Paths \ {SrcPath("b.hevc", ".hevc")}}
    /\ meta = [p \in Paths |-> 1]
    /\ cache \in {{}, {[dir |-> "cache", name |-> "a.HEIC", key |-> 1, suffix |-> ".jpg"]}}
    /\ cpc = [t \in Callers |-> "idle"]
    /\ path = [t \in Callers |-> NoPath]
    /\ cached = [t \in Callers |-> NoPath]
    /\ exists = [t \in Callers |-> FALSE]
    /\ ran = [t \in Callers |-> FALSE]
    /\ log = [t \in Callers |-> <<>>]
    /\ resolves = 0
    /\ probes = 0
    /\ transcodes = 0
    /\ val = None
    /\ txt = None
    /\ sec = None
    /\ rpc = "cell"

\* ------------------------------------------------------------------------
\* parse_commands
\* ------------------------------------------------------------------------
\* The call up to the for loop: locals, the start directives inserted into
\* the caller's list, the two splitting passes.
Begin ==
    /\ pc = "idle"
    /\ calls < MaxCalls
    /\ calls' = calls + 1
    /\ prev' = [out |-> out, err |-> err]
    /\ moment' = None
    /\ tokens' = <<>>
    /\ out' = <<>>
    /\ origin' = <<>>
    /\ i' = 1
    /\ IF StartDirectives(start) /= <<>> /\ tim(start.v).k = "err"
       THEN \* float() raises while the second insert is evaluated
            /\ cells' = <<Cell(<<"0">>)>> \o cells
            /\ commands' = <<>>
            /\ err' = "Float"
            /\ pc' = "idle"
       ELSE /\ cells' = StartDirectives(start) \o cells
            /\ commands' = Directives(cells')
            /\ err' = ""
            /\ pc' = "loop"
    /\ UNCHANGED <<start, cvars, rvars>>

\* Rule, tabulated once over every directive a row of the model can hold
AllDirectives ==
    UNION {Range(Directives(StartDirectives(st) \o <<c>>)) : st \in Starts, c \in Cells}

RuleOf == [c \in AllDirectives |-> Rule(c)]

\* which yield statement produced an event, while directive at was processed
Yield(kind, at) == [kind |-> kind, at |-> at]

InLoop(r) == pc = "loop" /\ i <= Len(commands) /\ RuleOf[commands[i]] = r

Raise(e) ==
    /\ UNCHANGED <<cvars, rvars>>
    /\ err' = e
    /\ pc' = "idle"
    /\ UNCHANGED <<start, cells, calls, prev, commands, i, moment, tokens, out, origin>>

Append1(toks) ==
    /\ UNCHANGED <<cvars, rvars>>
    /\ tokens' = tokens \o toks
    /\ i' = i + 1
    /\ UNCHANGED <<start, cells, calls, prev, pc, commands, moment, out, origin, err>>

\* if m := match(rf"{TNUM}$", command)
StandaloneNumber ==
    /\ InLoop(1)
    /\ LET c == commands[i]
           flushed == IF Accumulating(moment, tokens)
                      THEN Append(out, output_tokens(FlushMoment(moment), tokens))
                      ELSE out
           source == IF Accumulating(moment, tokens) THEN Append(origin, Yield("flush", i))
                     ELSE origin
       IN IF Accumulating(moment, tokens) /\ NoAction(tokens) THEN Raise("NoAction")
          ELSE IF tim(c).k = "err"
          THEN /\ out' = flushed
               /\ origin' = source
               /\ err' = "Float"
               /\ pc' = "idle"
               /\ UNCHANGED <<start, cells, calls, prev, commands, i, moment, tokens, cvars, rvars>>
          ELSE /\ moment' = tim(c)
               /\ tokens' = <<>>
               /\ out' = IF i = Len(commands)
                         THEN Append(flushed, Event(Text(tim(c)), <<PAUSE>>))
                         ELSE flushed
               /\ origin' = IF i = Len(commands) THEN Append(source, Yield("pause", i))
                            ELSE source
               /\ i' = i + 1
               /\ UNCHANGED <<start, cells, calls, prev, pc, commands, err, cvars, rvars>>

\* elif m := match(rf"→\s?{TNUM}$", command)
ArrowGoto ==
    /\ InLoop(2)
    /\ LET t == tim(MatchArrow(commands[i]).g1)
       IN IF t.k = "err" THEN Raise("Float") ELSE Append1(<<GOTO \o Text(t)>>)

\* elif m := match(rf"{TNUM}\s?→\s?{TNUM}", command)
Combined ==
    /\ InLoop(3)
    /\ LET m == MatchCombined(commands[i])
       IN IF MomentDefined(moment) THEN Raise("MomentDefined")
          ELSE IF tim(m.g1).k = "err" \/ tim(m.g2).k = "err" THEN Raise("Float")
          ELSE /\ out' = Append(out, CombinedEvent(m.g1, m.g2))
               /\ origin' = Append(origin, Yield("combined", i))
               /\ i' = i + 1
               /\ UNCHANGED <<start, cells, calls, prev, pc, commands, moment, tokens, err, cvars, rvars>>

\* elif m := match(rf"F{NUM}(M|U)?", command)
Faster ==
    /\ InLoop(4)
    /\ Append1(ShortTokens(RATE \o <<"1", ".">>, MatchShort(commands[i], "F")))

\* elif m := match(rf"R{NUM}(M|U)?", command)
RateShort ==
    /\ InLoop(5)
    /\ Append1(ShortTokens(RATE, MatchShort(commands[i], "R")))

\* elif m := match(rf"rate\s?{NUM}", command)
RateKeyword ==
    /\ InLoop(6)
    /\ Append1(<<RATE \o MatchRate(commands[i]).g1>>)

\* elif command in clist
Literal ==
    /\ InLoop(7)
    /\ Append1(<<clist[commands[i]]>>)

\* elif command.startswith("point")
Point ==
    /\ InLoop(8)
    /\ Append1(<<commands[i]>>)

\* elif m := match(rf"P", command)
Play ==
    /\ InLoop(9)
    /\ Append1(<<RATE \o <<"1">>, UNMUTE>>)

\* elif command.startswith("TODO")
Todo ==
    /\ InLoop(10)
    /\ Append1(<<>>)

\* else: raise ValueError("Unknown command ...")
Unknown ==
    /\ InLoop(11)
    /\ Raise("Unknown")

\* moment or "0"
FinalMoment(m) == IF Truthy(m) THEN m ELSE Str(<<"0">>)

\* after the loop: if tokens: yield output_tokens(moment or "0", tokens)
Finish ==
    /\ pc = "loop"
    /\ i > Len(commands)
    /\ out' = IF tokens /= <<>>
              THEN Append(out, output_tokens(FinalMoment(moment), tokens)) ELSE out
    /\ origin' = IF tokens /= <<>> THEN Append(origin, Yield("final", i)) ELSE origin
    /\ pc' = "idle"
    /\ UNCHANGED <<start, cells, calls, prev, commands, i, moment, tokens, err, cvars, rvars>>

Next ==
    \/ Begin
    \/ StandaloneNumber
    \/ ArrowGoto
    \/ Combined
    \/ Faster
    \/ RateShort
    \/ RateKeyword
    \/ Literal
    \/ Point
    \/ Play
    \/ Todo
    \/ Unknown
    \/ Finish

Spec == Init /\ [][Next]_vars

\* ------------------------------------------------------------------------
\* Convert.run and Convert.get_converted
\* ------------------------------------------------------------------------
Returned(p, c, r, tr) == [src |-> p, cached |-> c, ret |-> r, ran |-> tr, stored |-> c \in cache]

\* run returns its argument: disabled, source absent, or nothing to convert
RunPlain(t, p) ==
    /\ cpc[t] = "idle"
    /\ resolves < MaxResolves
    /\ ~enable \/ p \notin present \/ Target(p) = ""
    /\ resolves' = resolves + 1
    /\ probes' = IF Probes(p) THEN probes + 1 ELSE probes
    /\ log' = [log EXCEPT ![t] = Append(@, Returned(p, NoPath, p, FALSE))]
    /\ UNCHANGED <<enable, autogenerate, check_mp4_for_hevc, present, meta, cache, cpc,
                   path, cached, exists, ran, transcodes, pvars, rvars>>

\* run dispatches to get_converted, which computes cached and reads exists
RunLookup(t, p) ==
    /\ cpc[t] = "idle"
    /\ resolves < MaxResolves
    /\ enable /\ p \in present /\ Target(p) /= ""
    /\ resolves' = resolves + 1
    /\ probes' = IF Probes(p) THEN probes + 1 ELSE probes
    /\ path' = [path EXCEPT ![t] = p]
    /\ cached' = [cached EXCEPT ![t] = get_cached_path(p, Target(p))]
    /\ exists' = [exists EXCEPT ![t] = get_cached_path(p, Target(p)) \in cache]
    /\ cpc' = [cpc EXCEPT ![t] = "looked"]
    /\ UNCHANGED <<enable, autogenerate, check_mp4_for_hevc, present, meta, cache, ran,
                   log, transcodes, pvars, rvars>>

\* variant: the transcoder runs under a lock on the cache path, with the
\* existence of the entry checked again
InvokeMethodLocked(t) ==
    /\ cpc[t] = "looked"
    /\ NeedsMethod(autogenerate, exists[t])
    /\ cached[t] \notin cache
    /\ \A u \in Callers \ {t} : ~(ran[u] /\ cached[u] = cached[t])
    /\ transcodes' = transcodes + 1
    /\ ran' = [ran EXCEPT ![t] = TRUE]
    /\ \E o \in TranscodeOutcomes :
          /\ cache' = IF o = "ok" THEN cache \cup {cached[t]} ELSE cache
          /\ cpc' = [cpc EXCEPT ![t] = IF o = "raise" THEN "aborted" ELSE "converted"]
    /\ UNCHANGED <<enable, autogenerate, check_mp4_for_hevc, present, meta, path, cached,
                   exists, log, resolves, probes, pvars, rvars>>

\* method(path, cached)
InvokeMethod(t) ==
    /\ cpc[t] = "looked"
    /\ NeedsMethod(autogenerate, exists[t])
    /\ transcodes' = transcodes + 1
    /\ ran' = [ran EXCEPT ![t] = TRUE]
    /\ \E o \in TranscodeOutcomes :
          /\ cache' = IF o = "ok" THEN cache \cup {cached[t]} ELSE cache
          /\ cpc' = [cpc EXCEPT ![t] = IF o = "raise" THEN "aborted" ELSE "converted"]
    /\ UNCHANGED <<enable, autogenerate, check_mp4_for_hevc, present, meta, path, cached,
                   exists, log, resolves, probes, pvars, rvars>>

\* the two returns of get_converted, handed on by run
ReturnConverted(t) ==
    /\ \/ cpc[t] = "converted"
       \/ cpc[t] = "looked" /\ ~NeedsMethod(autogenerate, exists[t])
    /\ log' = [log EXCEPT ![t] =
                 Append(@, Returned(path[t], cached[t],
                                    IF KeepsOriginal(autogenerate, exists[t])
                                    THEN path[t] ELSE cached[t],
                                    ran[t]))]
    /\ cpc' = [cpc EXCEPT ![t] = "idle"]
    /\ ran' = [ran EXCEPT ![t] = FALSE]
    /\ UNCHANGED <<enable, autogenerate, check_mp4_for_hevc, present, meta, cache, path,
                   cached, exists, resolves, probes, transcodes, pvars, rvars>>

\* the source file that is being edited is saved again: its metadata, hence
\* its key, changes
Touch(p) ==
    /\ p = Edited
    /\ p \in present
    /\ meta[p] < MaxMeta
    /\ meta' = [meta EXCEPT ![p] = @ + 1]
    /\ UNCHANGED <<enable, autogenerate, check_mp4_for_hevc, present, cache, cpc, path,
                   cached, exists, ran, log, resolves, probes, transcodes, pvars, rvars>>

NextConvert ==
    \/ \E t \in Callers, p \in Paths : RunPlain(t, p)
    \/ \E t \in Callers, p \in Paths : RunLookup(t, p)
    \/ \E t \in Callers : InvokeMethod(t)
    \/ \E t \in Callers : ReturnConverted(t)
    \/ \E p \in Paths : Touch(p)

SpecConvert == InitConvert /\ [][NextConvert]_vars

\* ------------------------------------------------------------------------
\* The start cell of a row: from the sheet to tim
\* ------------------------------------------------------------------------
Alphabet == {"0", "1", "2", ":", "."}

Texts == UNION {[1..n -> Alphabet] : n \in 1..MaxLen}

\* Binary floating point gives minutes * 60 + seconds as the decimal sum when
\* the minutes have no fraction and the seconds at most one fractional digit;
\* other M:S texts round in the last place, which the decimals of the model
\* do not represent, and are left out.
ExactTime(s) ==
    LET ps == Split(s, ":")
    IN Len(ps) = 2 =>
          /\ "." \notin Range(ps[1])
          /\ \A k \in 1..(Len(ps[2]) - 2) : ps[2][k] /= "."

\* what a cell of the sheet can hold
CellValues ==
    {None}
      \cup {IntCell(n) : n \in 0..MaxNum}
      \cup {Float(n, d) : n \in 0..MaxNum, d \in 0..MaxFrac}
      \cup {Str(s) : s \in {t \in Texts : ExactTime(t)}}

\* a sheet row's start cell of any value; no row is compiled, no file resolved
InitCells ==
    /\ start = Absent
    /\ cells = <<>>
    /\ calls = 0
    /\ prev = [out |-> <<>>, err |-> ""]
    /\ pc = "idle"
    /\ commands = <<>>
    /\ i = 1
    /\ moment = None
    /\ tokens = <<>>
    /\ out = <<>>
    /\ origin = <<>>
    /\ err = ""
    /\ enable = FALSE
    /\ autogenerate = TRUE
    /\ check_mp4_for_hevc = TRUE
    /\ present = Paths
    /\ meta = [p \in Paths |-> 1]
    /\ cache = {}
    /\ cpc = [t \in Callers |-> "idle"]
    /\ path = [t \in Callers |-> NoPath]
    /\ cached = [t \in Callers |-> NoPath]
    /\ exists = [t \in Callers |-> FALSE]
    /\ ran = [t \in Callers |-> FALSE]
    /\ log = [t \in Callers |-> <<>>]
    /\ resolves = 0
    /\ probes = 0
    /\ transcodes = 0
    /\ val \in CellValues
    /\ txt = None
    /\ sec = None
    /\ rpc = "cell"

\* comment, filename, start, *commands = [cell_value(cell.value) for cell in row]
ReadCell ==
    /\ rpc = "cell"
    /\ txt' = cell_value(val)
    /\ rpc' = "start"
    /\ UNCHANGED <<val, sec, pvars, cvars>>

\* if start and start != "0": ... tim(start)
SeekStart ==
    /\ rpc = "start"
    /\ Truthy(txt) /\ txt.s /= <<"0">>
    /\ sec' = tim(txt.s)
    /\ rpc' = "done"
    /\ UNCHANGED <<val, txt, pvars, cvars>>

\* the start cell is empty or "0": nothing is inserted
NoSeek ==
    /\ rpc = "start"
    /\ ~(Truthy(txt) /\ txt.s /= <<"0">>)
    /\ rpc' = "done"
    /\ UNCHANGED <<val, txt, sec, pvars, cvars>>

NextCells ==
    \/ ReadCell
    \/ SeekStart
    \/ NoSeek

SpecCells == InitCells /\ [][NextCells]_vars

\* ------------------------------------------------------------------------
\* Vocabulary of the properties, stated on the text of the row and not on
\* the matcher of the code
\* ------------------------------------------------------------------------
\* a complete time value: digits, optional :digits, optional fraction
IsTime(t) == MatchNumber(t).ok /\ tim(t).k /= "err"

Norm(t) == Text(tim(t))

\* the directive is <t1>→<t2>, blanks allowed around the arrow
IsCombinedForm(c) ==
    LET ps == Split(c, ARROW)
    IN Len(ps) = 2 /\ IsTime(Strip(ps[1])) /\ IsTime(Strip(ps[2]))

SourceTime(c) == Strip(Split(c, ARROW)[1])
TargetTime(c) == Strip(Split(c, ARROW)[2])

\* t cut after its first fractional digit
RECURSIVE UpToFirstFraction(_)
UpToFirstFraction(t) ==
    IF t = <<>> THEN <<>>
    ELSE IF Head(t) = "." THEN SubSeq(t, 1, 2)
    ELSE <<Head(t)>> \o UpToFirstFraction(Tail(t))

StartAbsent == ~start.some \/ start.v = <<>>
NoStart == ~start.some \/ start.v = <<>> \/ start.v = <<"0">>
StartSeeks == ~NoStart /\ IsTime(start.v)

Compiled == pc = "idle" /\ calls >= 1
CompiledOk == Compiled /\ err = ""

\* a standalone number earlier in the row has opened a moment
Opened == \E k \in 1..(i - 1) : MatchNumber(commands[k]).ok

AtDirective == pc = "loop" /\ i <= Len(commands)

OnlyCombined == Len(commands) = 1 /\ IsCombinedForm(commands[1])

C2_CombinedAfterMomentFails ==
    [][(AtDirective /\ Opened /\ IsCombinedForm(commands[i]))
          => (err' = "MomentDefined" /\ out' = out)]_vars

\* ------------------------------------------------------------------------
\* C3
\* ------------------------------------------------------------------------
\* C3: a standalone number met while the previously opened moment has no
\* action token fails with "No action at ..." and does not open the new
\* moment, whatever the value of the previously opened moment.
C3_DanglingMomentFails ==
    [][(AtDirective /\ Opened /\ tokens = <<>> /\ MatchNumber(commands[i]).ok)
          => (err' = "NoAction" /\ moment' = moment)]_vars

\* ------------------------------------------------------------------------
\* C4
\* ------------------------------------------------------------------------
\* C4: when the last directive is a standalone number t and the row compiles,
\* the open moment, if any, is flushed first with its accumulated tokens, the
\* event (normalize(t), [pause]) comes next and nothing follows it.
C4_TrailingNumber ==
    [][/\ (AtDirective /\ i = Len(commands) /\ MatchNumber(commands[i]).ok /\ err' = "")
            => /\ out' /= <<>>
               /\ Last(out') = Event(Norm(commands[i]), <<PAUSE>>)
               /\ Opened => /\ Len(out') = Len(out) + 2
                            /\ SubSeq(out', 1, Len(out)) = out
                            /\ out'[Len(out) + 1].tokens = tokens
       /\ (pc = "loop" /\ i > Len(commands) /\ commands /= <<>>
             /\ MatchNumber(Last(commands)).ok)
            => out' = out]_vars

\* ------------------------------------------------------------------------
\* C5
\* ------------------------------------------------------------------------
\* C5: every emitted event carries at least one token.
C5_NoEmptyEvent == \A k \in 1..Len(out) : out[k].tokens /= <<>>

C5_Witness ==
    /\ CompiledOk
    /\ Len(out) >= 2
    /\ Last(out).tokens = <<PAUSE>>
    /\ Len(out[1].tokens) >= 2

\* ------------------------------------------------------------------------
\* C6
\* ------------------------------------------------------------------------
\* rules 1-10 as the claim words them: rule 9 is the directive P exactly
MatchesSomeRule(c) ==
    \/ MatchNumber(c).ok
    \/ MatchArrow(c).ok
    \/ MatchCombined(c).ok
    \/ MatchShort(c, "F").ok
    \/ MatchShort(c, "R").ok
    \/ MatchRate(c).ok
    \/ c \in DOMAIN clist
    \/ IsPoint(c)
    \/ c = <<"P">>
    \/ IsTodo(c)

\* C6: every directive matching none of rules 1-10, such as one that begins
\* with P without being exactly P, fails with "Unknown command" and appends
\* no token.
C6_OnlyExactPlay ==
    [][(AtDirective /\ ~MatchesSomeRule(commands[i]))
          => (err' = "Unknown" /\ tokens' = tokens)]_vars

\* ------------------------------------------------------------------------
\* C7
\* ------------------------------------------------------------------------
\* C7: the splitter's output contains no empty directive.
C7_NoEmptyDirective == \A k \in 1..Len(commands) : commands[k] /= <<>>

\* ------------------------------------------------------------------------
\* C8
\* ------------------------------------------------------------------------
\* C8: compiling leaves the caller's commands list unchanged, and compiling
\* the same row object a second time yields the same timeline.
C8_Pure ==
    [][/\ cells' = cells
       /\ (pc' = "idle" /\ calls' >= 2) => (out' = prev'.out /\ err' = prev'.err)]_vars

\* ------------------------------------------------------------------------
\* C9
\* ------------------------------------------------------------------------
\* C9: with a start that is a valid time other than the literal 0, a row that
\* compiles has a first event with moment 0 whose first token is
\* goto:normalize(start).
C9_StartSeeksAtZero ==
    (CompiledOk /\ StartSeeks) =>
        /\ out /= <<>>
        /\ out[1].moment = <<"0">>
        /\ out[1].tokens /= <<>>
        /\ out[1].tokens[1] = GOTO \o Norm(start.v)

C9_Witness ==
    /\ CompiledOk /\ StartSeeks
    /\ start.v = <<"1", ":", "3", "0">>
    /\ Len(out) >= 2
    /\ out[1].tokens = <<GOTO \o <<"9", "0", ".", "0">>, MUTE>>

\* ------------------------------------------------------------------------
\* C10
\* ------------------------------------------------------------------------
\* two calls in sequence by one caller for the same source and the same key
Repeated(t, j) ==
    /\ j + 1 <= Len(log[t])
    /\ log[t][j].cached /= NoPath
    /\ log[t][j + 1].src = log[t][j].src
    /\ log[t][j + 1].cached = log[t][j].cached

Returns(t) == Len(log'[t]) = Len(log[t]) + 1

\* C11: with enable false, every call of run returns its argument, whatever
\* the format, autogenerate, check_mp4_for_hevc, the presence of the source
\* and of a cache entry; no codec probe and no transcoder runs and the cache
\* keeps its entries.
C11_DisabledIsIdentity ==
    [][~enable =>
        /\ cache' = cache
        /\ probes' = probes
        /\ transcodes' = transcodes
        /\ \A t \in Callers : cpc'[t] = "idle"
        /\ \A t \in Callers : Returns(t) =>
              /\ Last(log'[t]).ret = Last(log'[t]).src
              /\ ~Last(log'[t]).ran]_vars

\* disabled, with an entry cached for a.HEIC and the HEVC-coded c.mp4 present:
\* both have been resolved and came back as they were
C11_Witness ==
    /\ ~enable /\ autogenerate /\ check_mp4_for_hevc
    /\ cache /= {}
    /\ probes = 0 /\ transcodes = 0
    /\ \E t \in Callers :
          /\ Len(log[t]) = 2
          /\ log[t][1].src = SrcPath("a.HEIC", ".HEIC")
          /\ log[t][1].ret = log[t][1].src
          /\ log[t][2].src = SrcPath("c.mp4", ".mp4")
          /\ log[t][2].ret = log[t][2].src

\* ------------------------------------------------------------------------
\* C12
\* ------------------------------------------------------------------------
\* C12: with enable and without autogenerate, no call runs a transcoder or
\* changes the set of cache entries; a call for a source that needs conversion
\* returns the cache path when the entry exists and the original path when it
\* does not.
C12_NoAutogenerateReadsOnly ==
    [][(enable /\ ~autogenerate) =>
        /\ cache' = cache
        /\ transcodes' = transcodes
        /\ \A t \in Callers : Returns(t) =>
              /\ ~Last(log'[t]).ran
              /\ Last(log'[t]).ret =
                    IF Last(log'[t]).cached \in cache
                    THEN Last(log'[t]).cached ELSE Last(log'[t]).src]_vars

\* one caller got the cached entry of a.HEIC and the original c.mp4, for
\* which nothing is cached
C12_Witness ==
    /\ enable /\ ~autogenerate
    /\ transcodes = 0
    /\ \E t \in Callers :
          /\ Len(log[t]) = 2
          /\ log[t][1].src = SrcPath("a.HEIC", ".HEIC")
          /\ log[t][1].ret = log[t][1].cached
          /\ log[t][1].cached \in cache
          /\ log[t][2].src = SrcPath("c.mp4", ".mp4")
          /\ log[t][2].cached = get_cached_path(log[t][2].src, ".mp4")
          /\ log[t][2].cached \notin cache
          /\ log[t][2].ret = log[t][2].src

\* ------------------------------------------------------------------------
\* C13
\* ------------------------------------------------------------------------
\* C13: a transcoder that raises or ends without writing the cache file does
\* not abort the run, and the call then returns the original path, never the
\* path of a cache entry that does not exist.
C13_FailedTranscodeRecovers ==
    \A t \in Callers :
        /\ cpc[t] /= "aborted"
        /\ \A j \in 1..Len(log[t]) :
              (log[t][j].ran /\ ~log[t][j].stored) => log[t][j].ret = log[t][j].src

\* ------------------------------------------------------------------------
\* C14
\* ------------------------------------------------------------------------
\* caller t has passed the existence check without finding the entry
PassedCheck(t) == cpc[t] = "looked" /\ autogenerate /\ ~exists[t]

\* C14: nothing excludes a second transcoder: a call that has passed the
\* existence check can invoke the transcoder whatever the other calls are
\* doing, also when another call has passed the check for the same cache path
\* or is past its own transcoder run on it.
C14_NoMutualExclusion ==
    \A t \in Callers : PassedCheck(t) => ENABLED InvokeMethod(t)

\* both callers passed the check for the same source with no entry, and both
\* have run the transcoder on the same cache path
C14_Witness ==
    /\ enable /\ autogenerate
    /\ transcodes = 2
    /\ \A t \in Callers :
          /\ cpc[t] = "converted" /\ ran[t] /\ ~exists[t]
          /\ path[t] = SrcPath("b.hevc", ".hevc")
          /\ cached[t] = get_cached_path(path[t], ".mp4")

\* ------------------------------------------------------------------------
\* C15
\* ------------------------------------------------------------------------
IsDigits(s) == s /= <<>> /\ \A k \in 1..Len(s) : s[k] \in Digit

\* an integer, or a decimal with one or more fractional digits
IsNumber(n) ==
    LET ps == Split(n, ".")
    IN \/ Len(ps) = 1 /\ IsDigits(ps[1])
       \/ Len(ps) = 2 /\ IsDigits(ps[1]) /\ IsDigits(ps[2])

\* the directive without its letter and without a closing M or U
ShortNumber(c) ==
    IF Last(c) \in {"M", "U"} THEN SubSeq(c, 2, Len(c) - 1) ELSE Tail(c)

ShortSuffix(c) == IF Last(c) \in {"M", "U"} THEN <<clist[<<Last(c)>>]>> ELSE <<>>

\* R<n>, R<n>M, R<n>U
IsRateShort(c) == Len(c) >= 2 /\ c[1] = "R" /\ IsNumber(ShortNumber(c))

\* F<digits>
IsFaster(c) == Len(c) >= 2 /\ c[1] = "F" /\ IsDigits(Tail(c))

\* C15: a row whose only directive is R<n>, R<n>M or R<n>U appends exactly
\* rate:<n> with the full text of n, followed by mute or unmute for M or U;
\* a row whose only directive is F<digits> appends exactly rate:1.<digits>.
C15_RateKeepsNumber ==
    (Compiled /\ StartAbsent /\ Len(commands) = 1) =>
        /\ IsRateShort(commands[1]) =>
              /\ err = ""
              /\ Len(out) = 1
              /\ out[1].tokens = <<RATE \o ShortNumber(commands[1])>> \o ShortSuffix(commands[1])
        /\ IsFaster(commands[1]) =>
              /\ err = ""
              /\ Len(out) = 1
              /\ out[1].tokens = <<RATE \o <<"1", ".">> \o Tail(commands[1])>>

\* ------------------------------------------------------------------------
\* C16
\* ------------------------------------------------------------------------
\* tim has been applied to the text of the start cell
Normalized == rpc = "done" /\ sec /= None

Minutes(s) == Split(s, ":")[1]
Seconds(s) == Split(s, ":")[2]

\* M:S with exactly one colon, M and S numbers
IsMinSec(s) == Len(Split(s, ":")) = 2 /\ IsNumber(Minutes(s)) /\ IsNumber(Seconds(s))

FracLen(n) == IF Len(Split(n, ".")) = 2 THEN Len(Split(n, ".")[2]) ELSE 0

\* the number n, in units of 10^-d
Scaled(n, d) == IntOf(Flatten(Split(n, "."))) * Pow10(d - FracLen(n))

\* C16: tim returns a text without a colon as it is, the same str; for M:S
\* with exactly one colon it returns the number M * 60 + S.
C16_TimNormalizes ==
    Normalized =>
        /\ ":" \notin Range(txt.s) => (sec = Str(txt.s) /\ tim(sec.s) = sec)
        /\ IsMinSec(txt.s) =>
              LET d == IF FracLen(Minutes(txt.s)) > FracLen(Seconds(txt.s))
                       THEN FracLen(Minutes(txt.s)) ELSE FracLen(Seconds(txt.s))
              IN /\ sec.k = "float"
                 /\ sec.d <= d
                 /\ sec.n * Pow10(d - sec.d)
                       = Scaled(Minutes(txt.s), d) * 60 + Scaled(Seconds(txt.s), d)

\* 1:2.2 gives 62.2
C16_Witness ==
    /\ Normalized
    /\ txt = Str(<<"1", ":", "2", ".", "2">>)
    /\ IsMinSec(txt.s)
    /\ sec = Float(622, 1)
    /\ Text(sec) = <<"6", "2", ".", "2">>

\* ------------------------------------------------------------------------
\* C17
\* ------------------------------------------------------------------------
\* the tokens an action directive appends
Appended(c) ==
    CASE RuleOf[c] = 2 -> <<GOTO \o Text(tim(MatchArrow(c).g1))>>
      [] RuleOf[c] = 4 -> ShortTokens(RATE \o <<"1", ".">>, MatchShort(c, "F"))
      [] RuleOf[c] = 5 -> ShortTokens(RATE, MatchShort(c, "R"))
      [] RuleOf[c] = 6 -> <<RATE \o MatchRate(c).g1>>
      [] RuleOf[c] = 7 -> <<clist[c]>>
      [] RuleOf[c] = 8 -> <<c>>
      [] RuleOf[c] = 9 -> <<RATE \o <<"1">>, UNMUTE>>
      [] OTHER -> <<>>

IsStandalone(k) == RuleOf[commands[k]] = 1

\* the last standalone-number directive before position k, 0 when none
RECURSIVE LastNumber(_)
LastNumber(k) ==
    IF k <= 1 THEN 0 ELSE IF IsStandalone(k - 1) THEN k - 1 ELSE LastNumber(k - 1)

\* the moment that is current at position k, as a number
MomentAt(k) ==
    IF LastNumber(k) = 0 THEN Float(0, 0)
    ELSE ParseFloat(Text(tim(commands[LastNumber(k)])))

Tagged(m, toks) == [j \in 1..Len(toks) |-> <<m, toks[j]>>]

\* every appended token with the moment current where it was appended
RECURSIVE AppendedFrom(_)
AppendedFrom(k) ==
    IF k > Len(commands) THEN <<>>
    ELSE Tagged(MomentAt(k), Appended(commands[k])) \o AppendedFrom(k + 1)

\* every token of the flushed and final events, with its event's moment
RECURSIVE EmittedFrom(_)
EmittedFrom(k) ==
    IF k > Len(out) THEN <<>>
    ELSE (IF origin[k].kind \in {"flush", "final"}
          THEN Tagged(ParseFloat(out[k].moment), out[k].tokens) ELSE <<>>)
           \o EmittedFrom(k + 1)

\* C17: in a row that compiles, the tokens of the emitted events, those of
\* combined directives and the trailing pause left out, are in emission order
\* exactly the tokens the action directives appended, in order, each at the
\* moment that was current when it was appended (0 when none was set); what
\* is unflushed at the end comes in a final event.
C17_TokensConserved ==
    CompiledOk => EmittedFrom(1) = AppendedFrom(1)

\* two flushed events, a trailing moment and a final event
C17_Witness ==
    /\ CompiledOk
    /\ Len(out) >= 3
    /\ \E k \in 1..Len(out) : origin[k].kind = "flush" /\ out[k].moment /= <<"0">>
    /\ origin[Len(out)].kind = "final"
    /\ Len(AppendedFrom(1)) >= 3

\* ------------------------------------------------------------------------
\* C18
\* ------------------------------------------------------------------------
\* the first directive before position k that appended a token, 0 when none
RECURSIVE FirstAppend(_, _)
FirstAppend(j, k) ==
    IF j >= k THEN 0
    ELSE IF Appended(commands[j]) /= <<>> THEN j ELSE FirstAppend(j + 1, k)

\* the first directive that contributed to event k: the directive itself for
\* a combined directive and a trailing number; for a flushed or final event
\* the standalone number that opened its moment, or its first action directive
\* when no moment was open
FirstContribution(k) ==
    IF origin[k].kind \in {"combined", "pause"} THEN origin[k].at
    ELSE IF LastNumber(origin[k].at) /= 0 THEN LastNumber(origin[k].at)
    ELSE FirstAppend(1, origin[k].at)

\* C18: in a row that compiles, events are emitted in the order of their
\* first contributing directives, also when action tokens gathered with no
\* open moment are followed by a combined directive.
C18_SourceOrder ==
    CompiledOk =>
        \A j, k \in 1..Len(out) : j < k => FirstContribution(j) <= FirstContribution(k)

\* ------------------------------------------------------------------------
\* C19
\* ------------------------------------------------------------------------
\* C19: a row with a standalone-number directive either fails to compile or
\* has an event whose moment is the normalized time of that directive.
C19_NoMomentDropped ==
    CompiledOk =>
        \A k \in 1..Len(commands) :
            IsTime(commands[k]) =>
                \E e \in 1..Len(out) :
                    ParseFloat(out[e].moment) = ParseFloat(Norm(commands[k]))

\* ------------------------------------------------------------------------
\* C20
\* ------------------------------------------------------------------------
\* C20: for a numeric cell, cell_value returns the decimal text of the same
\* number, an integral float without its ".0"; this holds also when the text
\* of the value has ".0" inside its fraction.
C20_CellTextKeepsValue ==
    (rpc /= "cell" /\ val.k \in {"int", "float"}) =>
        /\ txt.k = "str"
        /\ IsNumber(txt.s)
        /\ FracLen(txt.s) <= val.d
        /\ Scaled(txt.s, val.d) = val.n
        /\ val.d = 0 => txt.s = IntText(val.n)

====
